---- MODULE Spec2Model ----
(***************************************************************************)
(* Model of the we-invite API request handlers: order creation with image  *)
(* upload and compensating cleanup, order update / delete, payment         *)
(* transaction creation, payment notification handling, user sync and      *)
(* product deletion.  Every handler is an async function; each `await` is  *)
(* a point where other requests may run, so a handler is a sequence of     *)
(* atomic steps, one per awaited call.                                     *)
(***************************************************************************)
EXTENDS Integers, Sequences, FiniteSets, TLC

\* ------------------------------------------------------------------ bounds
NumReqs == 2
MaxImages == 2

Reqs == 1..NumReqs

\* ------------------------------------------------------------------ domains
Missing == "undefined"
OrderIds == {"o1", "o2"}
UserIds == {"u1", "u2"}
ProductIds == {"p1"}
UserNames == {"n2"}
WeddingInfos == {"w1"}
\* Tag names as they arrive, letter by letter: with a capital, with spaces
\* around, blank, empty.
RawNames == {<<"a">>, <<"A", " ">>, <<"b">>, <<" ">>, <<>>}
\* The tag lists of a request: one or two names.
TagLists == {<<x>> : x \in RawNames} \cup {<<x, y>> : x, y \in RawNames}
\* The tags of a body: absent, or a list.
TagInputs ==
  {[given |-> FALSE, list |-> <<>>]} \cup {[given |-> TRUE, list |-> l] : l \in TagLists}
SnapTokens == {"t1"}
Statuses == {"pending", "diterima", "dibatalkan"}
TransactionStatuses ==
  {"capture", "settlement", "cancel", "deny", "expire", "pending", "refund"}
FraudStatuses == {"accept", "challenge", Missing}
P1Price == 100
\* "Maximum 5 gallery images allowed"
MaxGallery == 5
\* The gallery files of a request: none, one, one more than allowed.
GallerySizes == {0, 1, MaxGallery + 1}

NoRow == [absent |-> TRUE]
NoResp == [code |-> 0, error |-> "none", index |-> 0, details |-> "none"]
NoBody == [status |-> Missing, weddingInfo |-> Missing, snapToken |-> Missing]
NoWrite == [op |-> "none", transactionStatus |-> Missing, fraudStatus |-> Missing,
            repeated |-> FALSE, row |-> NoRow, body |-> NoBody]

VARIABLES
  users,      \* User table: id -> row
  products,   \* Product table: id -> row
  orders,     \* Order table: id -> row
  store,      \* objects of the order-images bucket
  sessions,   \* payment sessions the gateway has opened
  req,        \* the requests: handler, position in it, locals, response
  lastWrite,  \* history: the last write to each Order id
  tags,       \* Tag table: the rows, each an id and a name
  assets      \* objects of the products bucket

vars == <<users, products, orders, store, sessions, req, lastWrite, tags, assets>>

\* ------------------------------------------------------------------ helpers
Range(s) == {s[k] : k \in 1..Len(s)}

Resp(code, error) == [code |-> code, error |-> error, index |-> 0, details |-> "none"]

\* res.status(500).json({ error, details: error.message })
Failure(error, details) == [code |-> 500, error |-> error, index |-> 0, details |-> details]

\* `${orderId}-${i + 1}-${uuidv4()}.${fileExt}` under order-images/
FilePath(orderId, index, uuid) ==
  [folder |-> "order-images", order |-> orderId, index |-> index, uuid |-> uuid]

\* uuidv4(): fresh for every upload; the pair (request, index) stands for it.
Uuid(r, index) == <<r, index>>

\* supabase.storage.from("order-images").getPublicUrl(filePath)
PublicUrl(path) == [publicUrl |-> path]

\* `${folder}/${uuidv4()}.${fileExt}` in the products bucket
AssetPath(folder, uuid) == [folder |-> folder, uuid |-> uuid]

\* The thumbnail of a request that has uploaded none.
NoUrl == PublicUrl(AssetPath("none", Uuid(0, 0)))

\* The id of the tag request r creates for the k-th name it handles.
TagId(r, k) == <<r, k>>
NoTagId == TagId(0, 0)

IdleReq ==
  [op |-> "none", pc |-> "idle", orderId |-> Missing, userId |-> Missing,
   productId |-> Missing, nImages |-> 0, uploadedFilePaths |-> <<>>,
   uploadedImageUrls |-> <<>>, transactionStatus |-> Missing,
   fraudStatus |-> Missing, amount |-> 0, name |-> Missing,
   status |-> Missing, list |-> <<>>, names |-> <<>>, tagId |-> NoTagId,
   thumbnailFile |-> FALSE, galleryFiles |-> 0, existingProduct |-> NoRow,
   thumbnailUrl |-> NoUrl, galleryUrls |-> <<>>, toDelete |-> <<>>,
   resp |-> NoResp,
   \* history of the request, kept after it has finished
   attempted |-> {}, failedAt |-> 0, cleanup |-> "none", insert |-> "none",
   verified |-> "none", target |-> "none",
   noImage |-> FALSE, absent |-> "none", duplicate |-> FALSE, gateway |-> "none"]

\* Request slots are taken in order: slot r once slot r-1 is in use.
CanStart(r) ==
  /\ req[r].op = "none"
  /\ r > 1 => req[r - 1].op # "none"

At(r, op, pc) == req[r].op = op /\ req[r].pc = pc

\* The handler has responded: its locals are dropped, its history is kept.
Finish(rec, resp) ==
  [IdleReq EXCEPT !.op = rec.op, !.pc = "done", !.resp = resp,
     !.attempted = rec.attempted, !.failedAt = rec.failedAt,
     !.cleanup = rec.cleanup, !.insert = rec.insert,
     !.verified = rec.verified, !.target = rec.target,
     !.noImage = rec.noImage, !.absent = rec.absent,
     !.duplicate = rec.duplicate, !.gateway = rec.gateway]

\* ------------------------------------------------------------------ persistence
HasRow(table, id) == id \in DOMAIN table /\ table[id] # NoRow

\* Order.id is the primary key: a second insert with the same id is rejected.
UniqueOk(id) == ~HasRow(orders, id)

\* The store without referential constraints.
ForeignKeysUnchecked(userId, productId) == TRUE

\* Order.userId / Order.productId are foreign keys of the relational store.
ForeignKeysOk(userId, productId) ==
  HasRow(users, userId) /\ HasRow(products, productId)

\* prisma.order.create resolves: the store answers, no constraint is violated.
InsertAccepted(dbOk, orderId, userId, productId) ==
  dbOk /\ UniqueOk(orderId) /\ ForeignKeysOk(userId, productId)

\* data: { id, userId, productId, status: "pending", weddingInfo: weddingInfo || {},
\*         snapToken: snapToken || null, imageUrls }
OrderRow(r, userId, productId, weddingInfo, snapToken, imageUrls) ==
  [userId |-> userId, productId |-> productId, status |-> "pending",
   weddingInfo |-> IF weddingInfo = Missing THEN "{}" ELSE weddingInfo,
   snapToken |-> IF snapToken = Missing THEN "null" ELSE snapToken,
   imageUrls |-> imageUrls,
   \* history: the request that inserted the row, and whether the rows it
   \* references existed when it was inserted
   by |-> r,
   refsExisted |-> HasRow(users, userId) /\ HasRow(products, productId)]

Wrote(op) == [NoWrite EXCEPT !.op = op]

\* ------------------------------------------------------------------ object store
\* Cleanup that forgets the first uploaded path.
RemoveAssetsButFirst(st, paths, ok) ==
  IF ok /\ paths # <<>> THEN st \ Range(Tail(paths)) ELSE st

\* Cleanup whose remove call is never issued.
RemoveAssetsSkipped(st, paths, ok) == st

\* Cleanup that empties the bucket instead of removing the attempt's paths.
RemoveAssetsWholeBucket(st, paths, ok) == IF ok THEN {} ELSE st

\* Cleanup that removes every object stored for the order ids of the paths.
RemoveAssetsByOrder(st, paths, ok) ==
  IF ok THEN {p \in st : \A q \in Range(paths) : p.order # q.order} ELSE st

\* supabase.storage.from("order-images").remove(paths) resolves to
\* { data, error }; on an error nothing is removed.
RemoveAssets(st, paths, ok) == IF ok THEN st \ Range(paths) ELSE st

\* ------------------------------------------------------------------ Init
\* A deployed system: the database outlives the process and holds one user,
\* one product and one order o1 placed earlier through createTransaction
\* (request 0), whose payment session is open at the gateway.
Init ==
  /\ users = [u \in UserIds |->
                IF u = "u1" THEN [name |-> "n1", role |-> "customer"] ELSE NoRow]
  /\ products = [p \in ProductIds |->
                   IF p = "p1" THEN [price |-> P1Price] ELSE NoRow]
  /\ orders = [o \in OrderIds |->
                 IF o = "o1"
                   THEN [userId |-> "u1", productId |-> "p1", status |-> "pending",
                         weddingInfo |-> "{}", snapToken |-> "null",
                         imageUrls |-> <<>>, by |-> 0, refsExisted |-> TRUE]
                   ELSE NoRow]
  /\ store = {}
  /\ sessions = {[orderId |-> "o1", grossAmount |-> P1Price]}
  /\ tags = {}
  /\ assets = {}
  /\ req = [r \in Reqs |-> IdleReq]
  /\ lastWrite = [o \in OrderIds |-> IF o = "o1" THEN Wrote("create") ELSE NoWrite]

\* ------------------------------------------------------------------ createOrder
\* The request arrives; required fields and the image list are validated
\* before the first await.
CreateOrderStart(r) ==
  /\ CanStart(r)
  /\ \E oid \in OrderIds \cup {Missing}, uid \in UserIds \cup {Missing},
        pid \in ProductIds \cup {Missing}, n \in 0..MaxImages :
       LET rec == [IdleReq EXCEPT !.op = "createOrder", !.orderId = oid,
                     !.userId = uid, !.productId = pid, !.nImages = n,
                     !.noImage = (n = 0),
                     !.absent = IF Missing \in {oid, uid, pid} THEN "fields" ELSE "none"]
       IN req' = [req EXCEPT ![r] =
            IF oid = Missing \/ uid = Missing \/ pid = Missing
              THEN Finish(rec, Resp(400, "Missing required fields: orderId, userId, productId"))
            ELSE IF n = 0
              THEN Finish(rec, Resp(400, "At least one image file is required"))
            ELSE [rec EXCEPT !.pc = "findUser"]]
  /\ UNCHANGED <<users, products, orders, store, sessions, lastWrite, tags, assets>>

CreateOrderFindUser(r) ==
  /\ At(r, "createOrder", "findUser")
  /\ req' = [req EXCEPT ![r] =
       IF ~HasRow(users, req[r].userId)
         THEN Finish([req[r] EXCEPT !.absent = "user"], Resp(404, "User not found"))
         ELSE [req[r] EXCEPT !.pc = "findProduct"]]
  /\ UNCHANGED <<users, products, orders, store, sessions, lastWrite, tags, assets>>

CreateOrderFindProduct(r) ==
  /\ At(r, "createOrder", "findProduct")
  /\ req' = [req EXCEPT ![r] =
       IF ~HasRow(products, req[r].productId)
         THEN Finish([req[r] EXCEPT !.absent = "product"],
                     Resp(404, "Product not found"))
         ELSE [req[r] EXCEPT !.pc = "upload"]]
  /\ UNCHANGED <<users, products, orders, store, sessions, lastWrite, tags, assets>>

\* A loop that stops one image short.
AfterUploadShort(uploadedCount, nImages) ==
  IF uploadedCount + 1 < nImages THEN "upload" ELSE "insert"

\* for (let i = 0; i < imageFiles.length; i++): where the loop goes after
\* image i + 1 has been uploaded.
AfterUpload(uploadedCount, nImages) ==
  IF uploadedCount < nImages THEN "upload" ELSE "insert"

UploadFailedResp(index) ==
  [code |-> 500, error |-> "Failed to upload image", index |-> index,
   details |-> "uploadError"]

\* One iteration of the upload loop, i = uploadedFilePaths.length.
CreateOrderUpload(r) ==
  /\ At(r, "createOrder", "upload")
  /\ LET i == Len(req[r].uploadedFilePaths)
         filePath == FilePath(req[r].orderId, i + 1, Uuid(r, i + 1))
         tried == [req[r] EXCEPT !.attempted = @ \cup {i + 1}]
     IN \E uploadOk \in BOOLEAN :
          IF uploadOk /\ filePath \notin store
            THEN /\ store' = store \cup {filePath}
                 /\ req' = [req EXCEPT ![r] =
                      [tried EXCEPT
                         !.uploadedImageUrls = Append(@, PublicUrl(filePath)),
                         !.uploadedFilePaths = Append(@, filePath),
                         !.pc = AfterUpload(i + 1, req[r].nImages)]]
            ELSE /\ store' = store
                 /\ req' = [req EXCEPT ![r] =
                      IF Len(req[r].uploadedFilePaths) > 0
                        THEN [tried EXCEPT !.failedAt = i + 1, !.pc = "removeUploaded"]
                        ELSE Finish([tried EXCEPT !.failedAt = i + 1],
                                    UploadFailedResp(i + 1))]
  /\ UNCHANGED <<users, products, orders, sessions, lastWrite, tags, assets>>

\* A cleanup whose failure is thrown and reaches the outer catch.
CleanupErrorEscalated(original, removeOk) ==
  IF removeOk THEN original ELSE Failure("Failed to create order", "removeError")

\* await supabase.storage.from("order-images").remove(...): the { error } the
\* call resolves to is not read, the handler goes on to its own response.
AfterCleanupResp(original, removeOk) == original

\* Clean up previously uploaded images, then answer 500 naming the image.
CreateOrderRemoveUploaded(r) ==
  /\ At(r, "createOrder", "removeUploaded")
  /\ \E removeOk \in BOOLEAN :
       /\ store' = RemoveAssets(store, req[r].uploadedFilePaths, removeOk)
       /\ req' = [req EXCEPT ![r] =
            Finish([req[r] EXCEPT !.cleanup = IF removeOk THEN "ok" ELSE "failed"],
                   AfterCleanupResp(UploadFailedResp(req[r].failedAt), removeOk))]
  /\ UNCHANGED <<users, products, orders, sessions, lastWrite, tags, assets>>

CreatedResp == Resp(201, "none")

\* prisma.order.create, then res.status(201).json(order); a rejected insert
\* goes to the inner catch.  weddingInfo and snapToken are read from the body
\* only here.
CreateOrderInsert(r) ==
  /\ At(r, "createOrder", "insert")
  /\ \E dbOk \in BOOLEAN, w \in WeddingInfos \cup {Missing},
        t \in SnapTokens \cup {Missing} :
       IF InsertAccepted(dbOk, req[r].orderId, req[r].userId, req[r].productId)
         THEN /\ orders' = [orders EXCEPT ![req[r].orderId] =
                   OrderRow(r, req[r].userId, req[r].productId, w, t,
                            req[r].uploadedImageUrls)]
              /\ lastWrite' = [lastWrite EXCEPT ![req[r].orderId] = Wrote("create")]
              /\ req' = [req EXCEPT ![r] =
                   Finish([req[r] EXCEPT !.insert = "ok"], CreatedResp)]
         ELSE /\ UNCHANGED <<orders, lastWrite>>
              /\ req' = [req EXCEPT ![r] =
                   [req[r] EXCEPT !.insert = "failed",
                                  !.duplicate = ~UniqueOk(req[r].orderId),
                                  !.pc = "removeAfterInsert"]]
  /\ UNCHANGED <<users, products, store, sessions, tags, assets>>

\* An inner catch that swallows the error and falls through to the 201.
CreateFailedSwallowed == Resp(201, "none")

CreateFailedResp == Failure("Failed to create order", "dbError")

\* catch (dbError): remove every uploaded image, rethrow to the outer catch.
CreateOrderRemoveAfterInsert(r) ==
  /\ At(r, "createOrder", "removeAfterInsert")
  /\ \E removeOk \in BOOLEAN :
       /\ store' = RemoveAssets(store, req[r].uploadedFilePaths, removeOk)
       /\ req' = [req EXCEPT ![r] =
            Finish([req[r] EXCEPT !.cleanup = IF removeOk THEN "ok" ELSE "failed"],
                   AfterCleanupResp(CreateFailedResp, removeOk))]
  /\ UNCHANGED <<users, products, orders, sessions, lastWrite, tags, assets>>

CreateOrder(r) ==
  \/ CreateOrderStart(r)
  \/ CreateOrderFindUser(r)
  \/ CreateOrderFindProduct(r)
  \/ CreateOrderUpload(r)
  \/ CreateOrderRemoveUploaded(r)
  \/ CreateOrderInsert(r)
  \/ CreateOrderRemoveAfterInsert(r)

\* ------------------------------------------------------------------ createOrder (orderController.js)
\* The createOrder of controllers/orderController.js, the handler that
\* routes/orderRoutes.js mounts on POST / without an upload middleware: it
\* reads no file, so every request it serves carries no parsed image.
CreateOrderPlainStart(r) ==
  /\ CanStart(r)
  /\ \E oid \in OrderIds \cup {Missing}, uid \in UserIds \cup {Missing},
        pid \in ProductIds \cup {Missing} :
       LET rec == [IdleReq EXCEPT !.op = "createOrderPlain", !.orderId = oid,
                     !.userId = uid, !.productId = pid, !.noImage = TRUE,
                     !.absent = IF Missing \in {oid, uid, pid} THEN "fields" ELSE "none"]
       IN req' = [req EXCEPT ![r] =
            IF oid = Missing \/ uid = Missing \/ pid = Missing
              THEN Finish(rec, Resp(400, "Missing required fields: orderId, userId, productId"))
              ELSE [rec EXCEPT !.pc = "findUser"]]
  /\ UNCHANGED <<users, products, orders, store, sessions, lastWrite, tags, assets>>

CreateOrderPlainFindUser(r) ==
  /\ At(r, "createOrderPlain", "findUser")
  /\ req' = [req EXCEPT ![r] =
       IF ~HasRow(users, req[r].userId)
         THEN Finish([req[r] EXCEPT !.absent = "user"], Resp(404, "User not found"))
         ELSE [req[r] EXCEPT !.pc = "findProduct"]]
  /\ UNCHANGED <<users, products, orders, store, sessions, lastWrite, tags, assets>>

CreateOrderPlainFindProduct(r) ==
  /\ At(r, "createOrderPlain", "findProduct")
  /\ req' = [req EXCEPT ![r] =
       IF ~HasRow(products, req[r].productId)
         THEN Finish([req[r] EXCEPT !.absent = "product"],
                     Resp(404, "Product not found"))
         ELSE [req[r] EXCEPT !.pc = "insert"]]
  /\ UNCHANGED <<users, products, orders, store, sessions, lastWrite, tags, assets>>

\* prisma.order.create without images, then res.status(201).json(order).
CreateOrderPlainInsert(r) ==
  /\ At(r, "createOrderPlain", "insert")
  /\ \E dbOk \in BOOLEAN, w \in WeddingInfos \cup {Missing},
        t \in SnapTokens \cup {Missing} :
       IF InsertAccepted(dbOk, req[r].orderId, req[r].userId, req[r].productId)
         THEN /\ orders' = [orders EXCEPT ![req[r].orderId] =
                   OrderRow(r, req[r].userId, req[r].productId, w, t, <<>>)]
              /\ lastWrite' = [lastWrite EXCEPT ![req[r].orderId] = Wrote("create")]
              /\ req' = [req EXCEPT ![r] =
                   Finish([req[r] EXCEPT !.insert = "ok"], CreatedResp)]
         ELSE /\ UNCHANGED <<orders, lastWrite>>
              /\ req' = [req EXCEPT ![r] =
                   Finish([req[r] EXCEPT !.insert = "failed"], CreateFailedResp)]
  /\ UNCHANGED <<users, products, store, sessions, tags, assets>>

CreateOrderPlain(r) ==
  \/ CreateOrderPlainStart(r)
  \/ CreateOrderPlainFindUser(r)
  \/ CreateOrderPlainFindProduct(r)
  \/ CreateOrderPlainInsert(r)

\* ------------------------------------------------------------------ createTransaction
CreateTransactionStart(r) ==
  /\ CanStart(r)
  /\ \E oid \in OrderIds \cup {Missing}, pid \in ProductIds \cup {Missing},
        uid \in UserIds \cup {Missing} :
       LET rec == [IdleReq EXCEPT !.op = "createTransaction", !.orderId = oid,
                     !.userId = uid, !.productId = pid]
       IN req' = [req EXCEPT ![r] =
            IF oid = Missing \/ pid = Missing \/ uid = Missing
              THEN Finish(rec, Resp(400, "Missing required fields: orderId, productId, userId"))
              ELSE [rec EXCEPT !.pc = "findProduct"]]
  /\ UNCHANGED <<users, products, orders, store, sessions, lastWrite, tags, assets>>

CreateTransactionFindProduct(r) ==
  /\ At(r, "createTransaction", "findProduct")
  /\ req' = [req EXCEPT ![r] =
       IF ~HasRow(products, req[r].productId)
         THEN Finish(req[r], Resp(404, "Product not found"))
         ELSE [req[r] EXCEPT !.pc = "findUser",
                             !.amount = products[req[r].productId].price]]
  /\ UNCHANGED <<users, products, orders, store, sessions, lastWrite, tags, assets>>

CreateTransactionFindUser(r) ==
  /\ At(r, "createTransaction", "findUser")
  /\ req' = [req EXCEPT ![r] =
       IF ~HasRow(users, req[r].userId)
         THEN Finish(req[r], Resp(404, "User not found"))
         ELSE [req[r] EXCEPT !.pc = "snap"]]
  /\ UNCHANGED <<users, products, orders, store, sessions, lastWrite, tags, assets>>

TransactionFailedResp == Resp(500, "Failed to create transaction")

\* A handler that goes on to the insert whatever the gateway answered.
AfterSnapIgnored(rec, snapOk) ==
  [rec EXCEPT !.pc = "insert", !.gateway = IF snapOk THEN "ok" ELSE "failed"]

\* A rejected snap.createTransaction is caught by the handler's catch; a
\* resolved one is followed by prisma.order.create.
AfterSnap(rec, snapOk) ==
  IF snapOk
    THEN [rec EXCEPT !.pc = "insert", !.gateway = "ok"]
    ELSE Finish([rec EXCEPT !.gateway = "failed"], TransactionFailedResp)

\* transaction_details: { order_id: orderId, gross_amount: product.price }
TransactionDetails(orderId, price) == [orderId |-> orderId, grossAmount |-> price]

\* snap.createTransaction(parameters), with the price of the product row read
\* at findProduct.
CreateTransactionSnap(r) ==
  /\ At(r, "createTransaction", "snap")
  /\ \E snapOk \in BOOLEAN :
       /\ sessions' = IF snapOk
                        THEN sessions \cup
                               {TransactionDetails(req[r].orderId, req[r].amount)}
                        ELSE sessions
       /\ req' = [req EXCEPT ![r] = AfterSnap(req[r], snapOk)]
  /\ UNCHANGED <<users, products, orders, store, lastWrite, tags, assets>>

\* prisma.order.create without images, then res.status(201).
CreateTransactionInsert(r) ==
  /\ At(r, "createTransaction", "insert")
  /\ \E dbOk \in BOOLEAN, w \in WeddingInfos \cup {Missing} :
       IF InsertAccepted(dbOk, req[r].orderId, req[r].userId, req[r].productId)
         THEN /\ orders' = [orders EXCEPT ![req[r].orderId] =
                   OrderRow(r, req[r].userId, req[r].productId, w, Missing, <<>>)]
              /\ lastWrite' = [lastWrite EXCEPT ![req[r].orderId] = Wrote("create")]
              /\ req' = [req EXCEPT ![r] =
                   Finish([req[r] EXCEPT !.insert = "ok"], CreatedResp)]
         ELSE /\ UNCHANGED <<orders, lastWrite>>
              /\ req' = [req EXCEPT ![r] =
                   Finish([req[r] EXCEPT !.insert = "failed"], TransactionFailedResp)]
  /\ UNCHANGED <<users, products, store, sessions, tags, assets>>

CreateTransaction(r) ==
  \/ CreateTransactionStart(r)
  \/ CreateTransactionFindProduct(r)
  \/ CreateTransactionFindUser(r)
  \/ CreateTransactionSnap(r)
  \/ CreateTransactionInsert(r)

\* ------------------------------------------------------------------ getTransactionStatus
StatusFailedResp == Resp(500, "Failed to get transaction status")

\* snap.transaction.status(orderId) is awaited first; it resolves or rejects,
\* and a rejection is answered by the handler's catch.
GetTransactionStatusSnap(r) ==
  /\ CanStart(r)
  /\ \E oid \in OrderIds, statusOk \in BOOLEAN :
       LET rec == [IdleReq EXCEPT !.op = "getTransactionStatus", !.orderId = oid]
       IN req' = [req EXCEPT ![r] =
            IF statusOk
              THEN [rec EXCEPT !.pc = "find", !.gateway = "ok"]
              ELSE Finish([rec EXCEPT !.gateway = "failed",
                                      !.target = IF HasRow(orders, oid)
                                                   THEN "found" ELSE "missing"],
                          StatusFailedResp)]
  /\ UNCHANGED <<users, products, orders, store, sessions, lastWrite, tags, assets>>

\* prisma.order.findUnique, then 404 or the two representations.
GetTransactionStatusFind(r) ==
  /\ At(r, "getTransactionStatus", "find")
  /\ req' = [req EXCEPT ![r] =
       IF ~HasRow(orders, req[r].orderId)
         THEN Finish([req[r] EXCEPT !.target = "missing"], Resp(404, "Order not found"))
         ELSE Finish([req[r] EXCEPT !.target = "found"], Resp(200, "none"))]
  /\ UNCHANGED <<users, products, orders, store, sessions, lastWrite, tags, assets>>

GetTransactionStatus(r) ==
  \/ GetTransactionStatusSnap(r)
  \/ GetTransactionStatusFind(r)

\* ------------------------------------------------------------------ handleNotification
\* A chain that forgets the fraud status of a capture.
OrderStatusIgnoringFraud(transactionStatus, fraudStatus) ==
  IF transactionStatus \in {"capture", "settlement"} THEN "diterima"
  ELSE IF transactionStatus \in {"cancel", "deny", "expire"} THEN "dibatalkan"
  ELSE "pending"

\* The if / else-if chain of handleNotification; orderStatus starts "pending".
OrderStatusOf(transactionStatus, fraudStatus) ==
  IF transactionStatus = "capture"
    THEN (IF fraudStatus = "accept" THEN "diterima" ELSE "pending")
  ELSE IF transactionStatus = "settlement" THEN "diterima"
  ELSE IF transactionStatus \in {"cancel", "deny", "expire"} THEN "dibatalkan"
  ELSE IF transactionStatus = "pending" THEN "pending"
  ELSE "pending"

\* An update that treats a status the row already has as a reset.
WithStatusReset(row, orderStatus) ==
  [row EXCEPT !.status = IF @ = orderStatus THEN "pending" ELSE orderStatus]

\* An update that only moves a pending order.
WithStatusForwardOnly(row, orderStatus) ==
  IF row.status = "pending" THEN [row EXCEPT !.status = orderStatus] ELSE row

\* An update that writes the whole row anew and loses its images.
WithStatusOnly(row, orderStatus) ==
  [row EXCEPT !.status = orderStatus, !.imageUrls = <<>>]

\* data: { status: orderStatus }
WithStatus(row, orderStatus) == [row EXCEPT !.status = orderStatus]

NotificationFailedResp == Resp(500, "Failed to handle notification")

\* A handler that does not wait for the verification's verdict.
AfterVerifyIgnored(genuine) == "update"

\* Where the handler goes when snap.transaction.notification answers.
AfterVerify(genuine) == IF genuine THEN "update" ELSE "done"

\* The payload arrives and snap.transaction.notification(payload) is awaited:
\* it rejects a payload the gateway does not vouch for, and otherwise gives
\* order_id, transaction_status and fraud_status.
HandleNotificationVerify(r) ==
  /\ CanStart(r)
  /\ \E oid \in OrderIds, ts \in TransactionStatuses, fs \in FraudStatuses,
        genuine \in BOOLEAN :
       LET rec == [IdleReq EXCEPT !.op = "handleNotification", !.orderId = oid,
                     !.transactionStatus = ts, !.fraudStatus = fs,
                     !.verified = IF genuine THEN "ok" ELSE "rejected"]
       IN req' = [req EXCEPT ![r] =
            IF AfterVerify(genuine) = "update"
              THEN [rec EXCEPT !.pc = "update"]
              ELSE Finish(rec, NotificationFailedResp)]
  /\ UNCHANGED <<users, products, orders, store, sessions, lastWrite, tags, assets>>

\* History of a notification write: a second application of the same
\* notification, with no other write in between, keeps the row recorded
\* after the first.
NotificationWrite(prev, ts, fs, row) ==
  IF prev.op = "notify" /\ prev.transactionStatus = ts /\ prev.fraudStatus = fs
    THEN [prev EXCEPT !.repeated = TRUE]
    ELSE [op |-> "notify", transactionStatus |-> ts, fraudStatus |-> fs,
          repeated |-> FALSE, row |-> row, body |-> NoBody]

\* prisma.order.update({ where: { id: orderId }, data: { status } }) rejects
\* when no row has that id; the catch answers 500.
HandleNotificationUpdate(r) ==
  /\ At(r, "handleNotification", "update")
  /\ LET oid == req[r].orderId
         orderStatus == OrderStatusOf(req[r].transactionStatus, req[r].fraudStatus)
     IN IF HasRow(orders, oid)
          THEN /\ orders' = [orders EXCEPT ![oid] = WithStatus(@, orderStatus)]
               /\ lastWrite' = [lastWrite EXCEPT ![oid] =
                    NotificationWrite(@, req[r].transactionStatus,
                                      req[r].fraudStatus, orders'[oid])]
               /\ req' = [req EXCEPT ![r] =
                    Finish([req[r] EXCEPT !.target = "found"], Resp(200, "none"))]
          ELSE /\ UNCHANGED <<orders, lastWrite>>
               /\ req' = [req EXCEPT ![r] =
                    Finish([req[r] EXCEPT !.target = "missing"],
                           NotificationFailedResp)]
  /\ UNCHANGED <<users, products, store, sessions, tags, assets>>

HandleNotification(r) ==
  \/ HandleNotificationVerify(r)
  \/ HandleNotificationUpdate(r)

\* ------------------------------------------------------------------ updateOrder
OrderNotFoundResp == Resp(404, "Order not found")

\* prisma.order.findUnique; the request arrives with the id in the path.
UpdateOrderFind(r) ==
  /\ CanStart(r)
  /\ \E oid \in OrderIds :
       LET rec == [IdleReq EXCEPT !.op = "updateOrder", !.orderId = oid]
       IN req' = [req EXCEPT ![r] =
            IF ~HasRow(orders, oid)
              THEN Finish([rec EXCEPT !.target = "missing"], OrderNotFoundResp)
              ELSE [rec EXCEPT !.pc = "update"]]
  /\ UNCHANGED <<users, products, orders, store, sessions, lastWrite, tags, assets>>

\* An update that resets the fields the body leaves out, as the create does.
UpdateDataDefaulting(row, status, weddingInfo, snapToken) ==
  [row EXCEPT
     !.status = IF status # Missing THEN status ELSE @,
     !.weddingInfo = IF weddingInfo # Missing THEN weddingInfo ELSE "{}",
     !.snapToken = IF snapToken # Missing THEN snapToken ELSE "null"]

\* updateData holds the fields of the body that are not undefined.
UpdateData(row, status, weddingInfo, snapToken) ==
  [row EXCEPT
     !.status = IF status # Missing THEN status ELSE @,
     !.weddingInfo = IF weddingInfo # Missing THEN weddingInfo ELSE @,
     !.snapToken = IF snapToken # Missing THEN snapToken ELSE @]

\* prisma.order.update; status, weddingInfo and snapToken are read from the
\* body only here.
UpdateOrderUpdate(r) ==
  /\ At(r, "updateOrder", "update")
  /\ LET oid == req[r].orderId
     IN IF HasRow(orders, oid)
          THEN /\ \E s \in Statuses \cup {Missing}, w \in WeddingInfos \cup {Missing},
                     t \in SnapTokens \cup {Missing} :
                    /\ orders' = [orders EXCEPT ![oid] = UpdateData(@, s, w, t)]
                    /\ lastWrite' = [lastWrite EXCEPT ![oid] =
                         [Wrote("update") EXCEPT !.body =
                            [status |-> s, weddingInfo |-> w, snapToken |-> t]]]
               /\ req' = [req EXCEPT ![r] =
                    Finish([req[r] EXCEPT !.target = "found"], Resp(200, "none"))]
          ELSE /\ UNCHANGED <<orders, lastWrite>>
               /\ req' = [req EXCEPT ![r] =
                    Finish([req[r] EXCEPT !.target = "missing"],
                           Resp(500, "Failed to update order"))]
  /\ UNCHANGED <<users, products, store, sessions, tags, assets>>

UpdateOrder(r) ==
  \/ UpdateOrderFind(r)
  \/ UpdateOrderUpdate(r)

\* ------------------------------------------------------------------ deleteOrder
DeleteOrderFind(r) ==
  /\ CanStart(r)
  /\ \E oid \in OrderIds :
       LET rec == [IdleReq EXCEPT !.op = "deleteOrder", !.orderId = oid]
       IN req' = [req EXCEPT ![r] =
            IF ~HasRow(orders, oid)
              THEN Finish([rec EXCEPT !.target = "missing"], OrderNotFoundResp)
              ELSE [rec EXCEPT !.pc = "delete"]]
  /\ UNCHANGED <<users, products, orders, store, sessions, lastWrite, tags, assets>>

\* prisma.order.delete: the row goes, the order-images bucket is not touched.
DeleteOrderDelete(r) ==
  /\ At(r, "deleteOrder", "delete")
  /\ LET oid == req[r].orderId
     IN IF HasRow(orders, oid)
          THEN /\ orders' = [orders EXCEPT ![oid] = NoRow]
               /\ lastWrite' = [lastWrite EXCEPT ![oid] = Wrote("delete")]
               /\ req' = [req EXCEPT ![r] =
                    Finish([req[r] EXCEPT !.target = "found"], Resp(200, "none"))]
          ELSE /\ UNCHANGED <<orders, lastWrite>>
               /\ req' = [req EXCEPT ![r] =
                    Finish([req[r] EXCEPT !.target = "missing"],
                           Resp(500, "Failed to delete order"))]
  /\ UNCHANGED <<users, products, store, sessions, tags, assets>>

DeleteOrder(r) ==
  \/ DeleteOrderFind(r)
  \/ DeleteOrderDelete(r)

\* ------------------------------------------------------------------ getAllOrders
\* The letters of a status, a = 1 .. z = 26.
StatusText(status) ==
  CASE status = "dibatalkan" -> <<4, 9, 2, 1, 20, 1, 12, 11, 1, 14>>
    [] status = "diterima" -> <<4, 9, 20, 5, 18, 9, 13, 1>>
    [] status = "pending" -> <<16, 5, 14, 4, 9, 14, 7>>

RECURSIVE TextLeq(_, _)
\* Ascending textual order: the first differing letter decides, a prefix is
\* smaller.
TextLeq(a, b) ==
  IF a = <<>> THEN TRUE
  ELSE IF b = <<>> THEN FALSE
  ELSE IF Head(a) # Head(b) THEN Head(a) < Head(b)
  ELSE TextLeq(Tail(a), Tail(b))

\* orderBy: { status: "asc" }; rows of equal status come in any order.
OrderByStatusAsc(l) ==
  \A i, j \in 1..Len(l) :
    i < j => TextLeq(StatusText(l[i].status), StatusText(l[j].status))

\* A filter that forgets the status of the query.
QueryFilterUserOnly(userId, status) == [userId |-> userId, status |-> Missing]

\* const filter = {}; if (userId) filter.userId = userId;
\* if (status) filter.status = status;
QueryFilter(userId, status) == [userId |-> userId, status |-> status]

\* where: filter
Matches(row, filter) ==
  /\ filter.userId # Missing => row.userId = filter.userId
  /\ filter.status # Missing => row.status = filter.status

\* One element of the result: the row with its id.
Listed(table, o) ==
  [id |-> o, userId |-> table[o].userId, status |-> table[o].status]

\* prisma.order.findMany({ where: filter, orderBy: { status: "asc" } }): the
\* results the store may return.
FindMany(table, filter) ==
  LET ids == {o \in DOMAIN table : HasRow(table, o) /\ Matches(table[o], filter)}
      n == Cardinality(ids)
  IN {l \in [1..n -> {Listed(table, o) : o \in ids}] :
        /\ \A i, j \in 1..n : i # j => l[i] # l[j]
        /\ OrderByStatusAsc(l)}

FetchFailedResp == Resp(500, "Failed to fetch orders")

\* The finished request keeps, as history, its query and the list it returned.
Listing(rec, l) ==
  [Finish(rec, Resp(200, "none"))
     EXCEPT !.userId = rec.userId, !.status = rec.status, !.list = l]

\* The only await of the handler is findMany.
GetAllOrders(r) ==
  /\ CanStart(r)
  /\ \E userId \in UserIds \cup {Missing}, status \in Statuses \cup {Missing},
        dbOk \in BOOLEAN :
       LET rec == [IdleReq EXCEPT !.op = "getAllOrders", !.userId = userId,
                                  !.status = status]
       IN IF dbOk
            THEN \E l \in FindMany(orders, QueryFilter(userId, status)) :
                   req' = [req EXCEPT ![r] = Listing(rec, l)]
            ELSE req' = [req EXCEPT ![r] = Finish(rec, FetchFailedResp)]
  /\ UNCHANGED <<users, products, orders, store, sessions, lastWrite, tags, assets>>

\* ------------------------------------------------------------------ getOrdersByUserId
\* "Verify user exists"
GetOrdersByUserIdFindUser(r) ==
  /\ CanStart(r)
  /\ \E userId \in UserIds :
       LET rec == [IdleReq EXCEPT !.op = "getOrdersByUserId", !.userId = userId]
       IN req' = [req EXCEPT ![r] =
            IF ~HasRow(users, userId)
              THEN Finish([rec EXCEPT !.target = "missing"],
                          Resp(404, "User not found"))
              ELSE [rec EXCEPT !.pc = "findMany", !.target = "found"]]
  /\ UNCHANGED <<users, products, orders, store, sessions, lastWrite, tags, assets>>

\* where: { userId }
GetOrdersByUserIdFindMany(r) ==
  /\ At(r, "getOrdersByUserId", "findMany")
  /\ \E dbOk \in BOOLEAN :
       IF dbOk
         THEN \E l \in FindMany(orders, [userId |-> req[r].userId, status |-> Missing]) :
                req' = [req EXCEPT ![r] = Listing(req[r], l)]
         ELSE req' = [req EXCEPT ![r] = Finish(req[r], FetchFailedResp)]
  /\ UNCHANGED <<users, products, orders, store, sessions, lastWrite, tags, assets>>

GetOrdersByUserId(r) ==
  \/ GetOrdersByUserIdFindUser(r)
  \/ GetOrdersByUserIdFindMany(r)

\* ------------------------------------------------------------------ syncUser
\* prisma.user.upsert({ where: { id: sub }, update: {}, create: { id: sub,
\* role: 'customer' } }); a body without sub is answered 400.
SyncUserStart(r) ==
  /\ CanStart(r)
  /\ \E sub \in UserIds \cup {Missing} :
       LET rec == [IdleReq EXCEPT !.op = "syncUser", !.userId = sub]
       IN req' = [req EXCEPT ![r] =
            IF sub = Missing
              THEN Finish(rec, Resp(400, "Missing required field: sub"))
              ELSE [rec EXCEPT !.pc = "upsert"]]
  /\ UNCHANGED <<users, products, orders, store, sessions, lastWrite, tags, assets>>

\* An upsert whose update branch writes the create data.
UpsertRowOverwriting(existing, created) == created

\* upsert with update: {}: the existing row is returned as it is, a missing
\* row is created.
UpsertRow(existing, created) == IF existing = NoRow THEN created ELSE existing

\* create: { id: sub, name: name, role: 'customer' }; an undefined name is
\* stored as null.
UserRow(name) ==
  [name |-> IF name = Missing THEN "null" ELSE name, role |-> "customer"]

SyncUserUpsert(r) ==
  /\ At(r, "syncUser", "upsert")
  /\ users' = [users EXCEPT ![req[r].userId] = UpsertRow(@, UserRow(Missing))]
  /\ req' = [req EXCEPT ![r] =
       Finish([req[r] EXCEPT !.target = IF HasRow(users, req[r].userId)
                                          THEN "found" ELSE "missing"],
              Resp(200, "none"))]
  /\ UNCHANGED <<products, orders, store, sessions, lastWrite, tags, assets>>

SyncUser(r) ==
  \/ SyncUserStart(r)
  \/ SyncUserUpsert(r)

\* The syncUser of orderController.js, which also reads name from the body.
SyncUserNamedStart(r) ==
  /\ CanStart(r)
  /\ \E sub \in UserIds \cup {Missing}, name \in UserNames \cup {Missing} :
       LET rec == [IdleReq EXCEPT !.op = "syncUserNamed", !.userId = sub,
                                  !.name = name]
       IN req' = [req EXCEPT ![r] =
            IF sub = Missing
              THEN Finish(rec, Resp(400, "Missing required field: sub"))
              ELSE [rec EXCEPT !.pc = "upsert"]]
  /\ UNCHANGED <<users, products, orders, store, sessions, lastWrite, tags, assets>>

\* The finished request keeps, as history, the sub and the name it was given.
SyncUserNamedUpsert(r) ==
  /\ At(r, "syncUserNamed", "upsert")
  /\ users' = [users EXCEPT ![req[r].userId] = UpsertRow(@, UserRow(req[r].name))]
  /\ req' = [req EXCEPT ![r] =
       [Finish([req[r] EXCEPT !.target = IF HasRow(users, req[r].userId)
                                           THEN "found" ELSE "missing"],
               Resp(200, "none"))
          EXCEPT !.userId = req[r].userId, !.name = req[r].name]]
  /\ UNCHANGED <<products, orders, store, sessions, lastWrite, tags, assets>>

SyncUserNamed(r) ==
  \/ SyncUserNamedStart(r)
  \/ SyncUserNamedUpsert(r)

\* ------------------------------------------------------------------ deleteProduct
DeleteProductFind(r) ==
  /\ CanStart(r)
  /\ \E pid \in ProductIds :
       LET rec == [IdleReq EXCEPT !.op = "deleteProduct", !.productId = pid]
       IN req' = [req EXCEPT ![r] =
            IF ~HasRow(products, pid)
              THEN Finish([rec EXCEPT !.target = "missing"],
                          Resp(404, "Product not found"))
              ELSE [rec EXCEPT !.pc = "delete"]]
  /\ UNCHANGED <<users, products, orders, store, sessions, lastWrite, tags, assets>>

\* "Delete the product (orders will be cascade deleted)"
CascadeOrders(table, productId) ==
  [o \in DOMAIN table |->
     IF table[o] # NoRow /\ table[o].productId = productId THEN NoRow ELSE table[o]]

\* prisma.product.delete, after the product's own images have been removed
\* from the products bucket (which holds no order image).
DeleteProductDelete(r) ==
  /\ At(r, "deleteProduct", "delete")
  /\ LET pid == req[r].productId
     IN IF HasRow(products, pid)
          THEN /\ products' = [products EXCEPT ![pid] = NoRow]
               /\ orders' = CascadeOrders(orders, pid)
               /\ lastWrite' = [o \in OrderIds |->
                    IF orders'[o] # orders[o] THEN Wrote("delete") ELSE lastWrite[o]]
               /\ req' = [req EXCEPT ![r] =
                    Finish([req[r] EXCEPT !.target = "found"], Resp(200, "none"))]
          ELSE /\ UNCHANGED <<products, orders, lastWrite>>
               /\ req' = [req EXCEPT ![r] =
                    Finish([req[r] EXCEPT !.target = "missing"],
                           Resp(500, "Failed to delete product"))]
  /\ UNCHANGED <<users, store, sessions, tags, assets>>

DeleteProduct(r) ==
  \/ DeleteProductFind(r)
  \/ DeleteProductDelete(r)

\* ------------------------------------------------------------------ tags
RECURSIVE TrimStart(_)
TrimStart(name) ==
  IF name # <<>> /\ Head(name) = " " THEN TrimStart(Tail(name)) ELSE name

RECURSIVE TrimEnd(_)
TrimEnd(name) ==
  IF name # <<>> /\ name[Len(name)] = " "
    THEN TrimEnd(SubSeq(name, 1, Len(name) - 1))
    ELSE name

\* String.prototype.trim
Trim(name) == TrimEnd(TrimStart(name))

\* String.prototype.toLowerCase
ToLowerCase(name) ==
  [i \in 1..Len(name) |->
     CASE name[i] = "A" -> "a" [] name[i] = "B" -> "b" [] OTHER -> name[i]]

\* .map(tag => tag.trim().toLowerCase()).filter(tag => tag.length > 0)
Normalized(names) ==
  LET mapped == [i \in 1..Len(names) |-> ToLowerCase(Trim(names[i]))]
      NonEmpty(name) == Len(name) > 0
  IN SelectSeq(mapped, NonEmpty)

RECURSIVE Unique(_)
\* [...new Set(tagNames)]: the first occurrence of each name, in order.
Unique(names) ==
  IF names = <<>> THEN <<>>
  ELSE LET init == Unique(SubSeq(names, 1, Len(names) - 1))
           last == names[Len(names)]
       IN IF last \in Range(init) THEN init ELSE Append(init, last)

\* Tag.name is unique in the store.
TagNameFree(table, name, id) == \A t \in table : t.name = name => t.id = id

TagIds(table) == {t.id : t \in table}

\* upsert / connectOrCreate by name: a tag of that name is left as it is,
\* otherwise one is created.
WithTag(table, name, id) ==
  IF \E t \in table : t.name = name THEN table
  ELSE table \cup {[id |-> id, name |-> name]}

RECURSIVE ConnectOrCreate(_, _, _)
\* connectOrCreate: names.map(tagName => ({ where: { name }, create: { name } }))
ConnectOrCreate(table, names, r) ==
  IF names = <<>> THEN table
  ELSE ConnectOrCreate(WithTag(table, Head(names), TagId(r, Len(names))),
                       Tail(names), r)

\* ------------------------------------------------------------------ createTags
\* tags is the string of the body, split at its commas.
CreateTagsStart(r) ==
  /\ CanStart(r)
  /\ \E input \in TagInputs :
       LET rec == [IdleReq EXCEPT !.op = "createTags"]
           uniqueTagNames == Unique(Normalized(input.list))
       IN req' = [req EXCEPT ![r] =
            IF ~input.given
              THEN Finish(rec, Resp(400, "Missing or invalid required field: tags (must be a string)"))
            ELSE IF uniqueTagNames = <<>>
              THEN Finish(rec, Resp(400, "No valid tags provided"))
            ELSE [rec EXCEPT !.pc = "upsert", !.names = uniqueTagNames]]
  /\ UNCHANGED <<users, products, orders, store, sessions, lastWrite, tags, assets>>

\* One upsert of the Promise.all; the response is given when the last one has
\* settled: 201, or 500 when one of them was rejected.
CreateTagsUpsert(r) ==
  /\ At(r, "createTags", "upsert")
  /\ \E dbOk \in BOOLEAN :
       LET name == Head(req[r].names)
           rec == [req[r] EXCEPT !.names = Tail(@),
                                 !.insert = IF dbOk THEN @ ELSE "failed"]
       IN /\ tags' = IF dbOk THEN WithTag(tags, name, TagId(r, Len(req[r].names)))
                              ELSE tags
          /\ req' = [req EXCEPT ![r] =
               IF rec.names # <<>> THEN rec
               ELSE IF rec.insert = "failed"
                 THEN Finish(rec, Resp(500, "Failed to create tags"))
               ELSE Finish(rec, Resp(201, "none"))]
  /\ UNCHANGED <<users, products, orders, store, sessions, lastWrite, assets>>

CreateTags(r) ==
  \/ CreateTagsStart(r)
  \/ CreateTagsUpsert(r)

\* ------------------------------------------------------------------ updateTag
\* !name || typeof name !== 'string': an absent or empty name is answered 400.
UpdateTagStart(r) ==
  /\ CanStart(r)
  /\ \E id \in TagIds(tags) \cup {NoTagId}, name \in RawNames :
       LET rec == [IdleReq EXCEPT !.op = "updateTag", !.tagId = id]
       IN req' = [req EXCEPT ![r] =
            IF name = <<>>
              THEN Finish(rec, Resp(400, "Missing or invalid required field: name (must be a string)"))
              ELSE [rec EXCEPT !.pc = "findTag", !.names = <<name>>]]
  /\ UNCHANGED <<users, products, orders, store, sessions, lastWrite, tags, assets>>

\* findUnique by id, then name.trim().toLowerCase()
UpdateTagFindTag(r) ==
  /\ At(r, "updateTag", "findTag")
  /\ LET normalizedName == ToLowerCase(Trim(req[r].names[1]))
     IN req' = [req EXCEPT ![r] =
          IF req[r].tagId \notin TagIds(tags)
            THEN Finish([req[r] EXCEPT !.target = "missing"], Resp(404, "Tag not found"))
          ELSE IF Len(normalizedName) = 0
            THEN Finish(req[r], Resp(400, "Tag name cannot be empty"))
          ELSE [req[r] EXCEPT !.pc = "findDuplicate", !.names = <<normalizedName>>]]
  /\ UNCHANGED <<users, products, orders, store, sessions, lastWrite, tags, assets>>

\* findUnique by name: duplicateTag && duplicateTag.id !== id
UpdateTagFindDuplicate(r) ==
  /\ At(r, "updateTag", "findDuplicate")
  /\ req' = [req EXCEPT ![r] =
       IF \E t \in tags : t.name = req[r].names[1] /\ t.id # req[r].tagId
         THEN Finish([req[r] EXCEPT !.duplicate = TRUE],
                     Resp(400, "A tag with this name already exists"))
         ELSE [req[r] EXCEPT !.pc = "update"]]
  /\ UNCHANGED <<users, products, orders, store, sessions, lastWrite, tags, assets>>

\* prisma.tag.update rejects when the row is gone or the name is taken.
UpdateTagUpdate(r) ==
  /\ At(r, "updateTag", "update")
  /\ \E dbOk \in BOOLEAN :
       LET id == req[r].tagId
           name == req[r].names[1]
       IN IF dbOk /\ id \in TagIds(tags) /\ TagNameFree(tags, name, id)
            THEN /\ tags' = {t \in tags : t.id # id} \cup {[id |-> id, name |-> name]}
                 /\ req' = [req EXCEPT ![r] =
                      Finish([req[r] EXCEPT !.target = "found"], Resp(200, "none"))]
            ELSE /\ tags' = tags
                 /\ req' = [req EXCEPT ![r] =
                      Finish(req[r], Resp(500, "Failed to update tag"))]
  /\ UNCHANGED <<users, products, orders, store, sessions, lastWrite, assets>>

UpdateTag(r) ==
  \/ UpdateTagStart(r)
  \/ UpdateTagFindTag(r)
  \/ UpdateTagFindDuplicate(r)
  \/ UpdateTagUpdate(r)

\* ------------------------------------------------------------------ deleteTag
DeleteTagFind(r) ==
  /\ CanStart(r)
  /\ \E id \in TagIds(tags) \cup {NoTagId} :
       LET rec == [IdleReq EXCEPT !.op = "deleteTag", !.tagId = id]
       IN req' = [req EXCEPT ![r] =
            IF id \notin TagIds(tags)
              THEN Finish([rec EXCEPT !.target = "missing"], Resp(404, "Tag not found"))
              ELSE [rec EXCEPT !.pc = "delete"]]
  /\ UNCHANGED <<users, products, orders, store, sessions, lastWrite, tags, assets>>

\* "Delete the tag (will be disconnected from products automatically)"
DeleteTagDelete(r) ==
  /\ At(r, "deleteTag", "delete")
  /\ LET id == req[r].tagId
     IN IF id \in TagIds(tags)
          THEN /\ tags' = {t \in tags : t.id # id}
               /\ products' = [p \in DOMAIN products |->
                    IF products[p] # NoRow /\ "tags" \in DOMAIN products[p]
                      THEN [products[p] EXCEPT !.tags = @ \ {id}]
                      ELSE products[p]]
               /\ req' = [req EXCEPT ![r] =
                    Finish([req[r] EXCEPT !.target = "found"], Resp(200, "none"))]
          ELSE /\ UNCHANGED <<tags, products>>
               /\ req' = [req EXCEPT ![r] =
                    Finish([req[r] EXCEPT !.target = "missing"],
                           Resp(500, "Failed to delete tag"))]
  /\ UNCHANGED <<users, orders, store, sessions, lastWrite, assets>>

DeleteTag(r) ==
  \/ DeleteTagFind(r)
  \/ DeleteTagDelete(r)

\* ------------------------------------------------------------------ createProduct (imageUrl)
\* The tags of a product row: the ids of the tags with these names.
TagsNamed(table, names) == {t.id : t \in {u \in table : u.name \in Range(names)}}

\* name, price and imageUrl are required.
CreateProductPlainStart(r) ==
  /\ CanStart(r)
  /\ \E complete \in BOOLEAN :
       LET rec == [IdleReq EXCEPT !.op = "createProductPlain"]
       IN req' = [req EXCEPT ![r] =
            IF ~complete
              THEN Finish([rec EXCEPT !.absent = "fields"],
                          Resp(400, "Missing required fields: name, price, imageUrl"))
              ELSE [rec EXCEPT !.pc = "create"]]
  /\ UNCHANGED <<users, products, orders, store, sessions, lastWrite, tags, assets>>

\* prisma.product.create with tags: { connectOrCreate: tags.map(...) }: the
\* names of the body go to the store as they are. The table holds the
\* products of ProductIds; a create beyond them is a rejected one.
CreateProductPlainCreate(r) ==
  /\ At(r, "createProductPlain", "create")
  /\ \E dbOk \in BOOLEAN, input \in TagInputs :
       LET names == input.list
           free == {p \in ProductIds : ~HasRow(products, p)}
       IN IF dbOk /\ free # {}
            THEN /\ tags' = ConnectOrCreate(tags, names, r)
                 /\ \E p \in free :
                      products' = [products EXCEPT ![p] =
                        [price |-> P1Price, imageUrl |-> "i1",
                         tags |-> TagsNamed(tags', names)]]
                 /\ req' = [req EXCEPT ![r] =
                      Finish([req[r] EXCEPT !.insert = "ok"], Resp(201, "none"))]
            ELSE /\ UNCHANGED <<tags, products>>
                 /\ req' = [req EXCEPT ![r] =
                      Finish([req[r] EXCEPT !.insert = "failed"],
                             Resp(500, "Failed to create product"))]
  /\ UNCHANGED <<users, orders, store, sessions, lastWrite, assets>>

CreateProductPlain(r) ==
  \/ CreateProductPlainStart(r)
  \/ CreateProductPlainCreate(r)

\* ------------------------------------------------------------------ products bucket
\* deleteFromSupabase: url.pathname.split(`/${bucket}/`)[1]
UrlPath(url) == url.publicUrl

\* uploadToSupabase: the object is stored and its public URL returned, or the
\* upload error is thrown.
Uploaded(bucket, path, ok) == IF ok THEN bucket \cup {path} ELSE bucket

\* deleteFromSupabase: on an error nothing is removed and the error is thrown
\* to a caller that logs it.
Deleted(bucket, url, ok) == IF ok THEN bucket \ {UrlPath(url)} ELSE bucket

HasThumbnail(row) == row # NoRow /\ "thumbnail" \in DOMAIN row
GalleryOf(row) ==
  IF row # NoRow /\ "galleryUrls" \in DOMAIN row THEN row.galleryUrls ELSE <<>>

\* ------------------------------------------------------------------ createProduct (images)
CreateProductFailedResp == Resp(500, "Failed to create product")

\* name and price, the thumbnail and the size of the gallery are validated
\* before the first upload.
CreateProductStart(r) ==
  /\ CanStart(r)
  /\ \E complete \in BOOLEAN, thumbnail \in BOOLEAN, gallery \in GallerySizes :
       LET rec == [IdleReq EXCEPT !.op = "createProduct", !.thumbnailFile = thumbnail,
                                  !.galleryFiles = gallery]
       IN req' = [req EXCEPT ![r] =
            IF ~complete
              THEN Finish(rec, Resp(400, "Missing required fields: name, price"))
            ELSE IF ~thumbnail
              THEN Finish(rec, Resp(400, "Thumbnail image is required"))
            ELSE IF gallery > MaxGallery
              THEN Finish(rec, Resp(400, "Maximum 5 gallery images allowed"))
            ELSE [rec EXCEPT !.pc = "thumbnail"]]
  /\ UNCHANGED <<users, products, orders, store, sessions, lastWrite, tags, assets>>

CreateProductThumbnail(r) ==
  /\ At(r, "createProduct", "thumbnail")
  /\ \E ok \in BOOLEAN :
       LET path == AssetPath("thumbnails", Uuid(r, 1))
       IN /\ assets' = Uploaded(assets, path, ok)
          /\ req' = [req EXCEPT ![r] =
               IF ~ok THEN Finish(req[r], CreateProductFailedResp)
               ELSE [req[r] EXCEPT !.thumbnailUrl = PublicUrl(path),
                       !.pc = IF req[r].galleryFiles > 0 THEN "gallery" ELSE "create"]]
  /\ UNCHANGED <<users, products, orders, store, sessions, lastWrite, tags>>

\* uploadMultipleToSupabase of the one gallery file.
CreateProductGallery(r) ==
  /\ At(r, "createProduct", "gallery")
  /\ \E ok \in BOOLEAN :
       LET path == AssetPath("gallery", Uuid(r, 2))
       IN /\ assets' = Uploaded(assets, path, ok)
          /\ req' = [req EXCEPT ![r] =
               IF ~ok THEN Finish(req[r], CreateProductFailedResp)
               ELSE [req[r] EXCEPT !.galleryUrls = <<PublicUrl(path)>>,
                                   !.pc = "create"]]
  /\ UNCHANGED <<users, products, orders, store, sessions, lastWrite, tags>>

\* prisma.product.create with the URLs and the normalised tags.
CreateProductCreate(r) ==
  /\ At(r, "createProduct", "create")
  /\ \E dbOk \in BOOLEAN, input \in TagInputs :
       LET normalizedTags == Normalized(input.list)
           free == {p \in ProductIds : ~HasRow(products, p)}
       IN IF dbOk /\ free # {}
            THEN /\ tags' = ConnectOrCreate(tags, normalizedTags, r)
                 /\ \E p \in free :
                      products' = [products EXCEPT ![p] =
                        [price |-> P1Price, thumbnail |-> req[r].thumbnailUrl,
                         galleryUrls |-> req[r].galleryUrls,
                         tags |-> TagsNamed(tags', normalizedTags)]]
                 /\ req' = [req EXCEPT ![r] =
                      Finish([req[r] EXCEPT !.insert = "ok"], Resp(201, "none"))]
            ELSE /\ UNCHANGED <<tags, products>>
                 /\ req' = [req EXCEPT ![r] =
                      Finish([req[r] EXCEPT !.insert = "failed"],
                             CreateProductFailedResp)]
  /\ UNCHANGED <<users, orders, store, sessions, lastWrite, assets>>

CreateProduct(r) ==
  \/ CreateProductStart(r)
  \/ CreateProductThumbnail(r)
  \/ CreateProductGallery(r)
  \/ CreateProductCreate(r)

\* ------------------------------------------------------------------ updateProduct (images)
UpdateProductFailedResp == Resp(500, "Failed to update product")

\* "Handle gallery update": the size is checked, the old images are deleted,
\* the new ones uploaded; without gallery files the update follows.
ThenGallery(rec) ==
  IF rec.galleryFiles = 0 THEN [rec EXCEPT !.pc = "update"]
  ELSE IF rec.galleryFiles > MaxGallery
    THEN Finish(rec, Resp(400, "Maximum 5 gallery images allowed"))
  ELSE IF GalleryOf(rec.existingProduct) # <<>>
    THEN [rec EXCEPT !.pc = "deleteGallery",
                     !.toDelete = GalleryOf(rec.existingProduct)]
  ELSE [rec EXCEPT !.pc = "uploadGallery"]

\* "Handle thumbnail update": the old thumbnail is deleted, the new uploaded.
ThenThumbnail(rec) ==
  IF ~rec.thumbnailFile THEN ThenGallery(rec)
  ELSE IF HasThumbnail(rec.existingProduct)
    THEN [rec EXCEPT !.pc = "deleteThumbnail"]
  ELSE [rec EXCEPT !.pc = "uploadThumbnail"]

UpdateProductFind(r) ==
  /\ CanStart(r)
  /\ \E pid \in ProductIds, thumbnail \in BOOLEAN, gallery \in GallerySizes :
       LET rec == [IdleReq EXCEPT !.op = "updateProduct", !.productId = pid,
                     !.thumbnailFile = thumbnail, !.galleryFiles = gallery,
                     !.existingProduct = products[pid]]
       IN req' = [req EXCEPT ![r] =
            IF ~HasRow(products, pid)
              THEN Finish([rec EXCEPT !.target = "missing"],
                          Resp(404, "Product not found"))
              ELSE ThenThumbnail(rec)]
  /\ UNCHANGED <<users, products, orders, store, sessions, lastWrite, tags, assets>>

UpdateProductDeleteThumbnail(r) ==
  /\ At(r, "updateProduct", "deleteThumbnail")
  /\ \E ok \in BOOLEAN :
       assets' = Deleted(assets, req[r].existingProduct.thumbnail, ok)
  /\ req' = [req EXCEPT ![r] = [req[r] EXCEPT !.pc = "uploadThumbnail"]]
  /\ UNCHANGED <<users, products, orders, store, sessions, lastWrite, tags>>

UpdateProductUploadThumbnail(r) ==
  /\ At(r, "updateProduct", "uploadThumbnail")
  /\ \E ok \in BOOLEAN :
       LET path == AssetPath("thumbnails", Uuid(r, 1))
       IN /\ assets' = Uploaded(assets, path, ok)
          /\ req' = [req EXCEPT ![r] =
               IF ~ok THEN Finish(req[r], UpdateProductFailedResp)
               ELSE ThenGallery([req[r] EXCEPT !.thumbnailUrl = PublicUrl(path)])]
  /\ UNCHANGED <<users, products, orders, store, sessions, lastWrite, tags>>

\* One turn of the loop over existingProduct.galleryUrls.
UpdateProductDeleteGallery(r) ==
  /\ At(r, "updateProduct", "deleteGallery")
  /\ \E ok \in BOOLEAN :
       assets' = Deleted(assets, Head(req[r].toDelete), ok)
  /\ req' = [req EXCEPT ![r] =
       [req[r] EXCEPT !.toDelete = Tail(@),
          !.pc = IF Tail(req[r].toDelete) = <<>> THEN "uploadGallery" ELSE @]]
  /\ UNCHANGED <<users, products, orders, store, sessions, lastWrite, tags>>

UpdateProductUploadGallery(r) ==
  /\ At(r, "updateProduct", "uploadGallery")
  /\ \E ok \in BOOLEAN :
       LET path == AssetPath("gallery", Uuid(r, 2))
       IN /\ assets' = Uploaded(assets, path, ok)
          /\ req' = [req EXCEPT ![r] =
               IF ~ok THEN Finish(req[r], UpdateProductFailedResp)
               ELSE [req[r] EXCEPT !.galleryUrls = <<PublicUrl(path)>>,
                                   !.pc = "update"]]
  /\ UNCHANGED <<users, products, orders, store, sessions, lastWrite, tags>>

\* updateData: the thumbnail and the gallery that were uploaded, the tags
\* when the body has them.
ProductUpdateData(row, rec, tagIds, tagsGiven) ==
  [row EXCEPT
     !.thumbnail = IF rec.thumbnailFile THEN rec.thumbnailUrl ELSE @,
     !.galleryUrls = IF rec.galleryFiles > 0 THEN rec.galleryUrls ELSE @,
     !.tags = IF tagsGiven THEN tagIds ELSE @]

\* prisma.product.update rejects when the row is gone.
UpdateProductUpdate(r) ==
  /\ At(r, "updateProduct", "update")
  /\ \E dbOk \in BOOLEAN, input \in TagInputs :
       LET pid == req[r].productId
           normalizedTags == Normalized(input.list)
       IN IF dbOk /\ HasRow(products, pid)
            THEN /\ tags' = ConnectOrCreate(tags, normalizedTags, r)
                 /\ products' = [products EXCEPT ![pid] =
                      ProductUpdateData(@, req[r], TagsNamed(tags', normalizedTags),
                                        input.given)]
                 /\ req' = [req EXCEPT ![r] =
                      Finish([req[r] EXCEPT !.target = "found"], Resp(200, "none"))]
            ELSE /\ UNCHANGED <<tags, products>>
                 /\ req' = [req EXCEPT ![r] = Finish(req[r], UpdateProductFailedResp)]
  /\ UNCHANGED <<users, orders, store, sessions, lastWrite, assets>>

UpdateProduct(r) ==
  \/ UpdateProductFind(r)
  \/ UpdateProductDeleteThumbnail(r)
  \/ UpdateProductUploadThumbnail(r)
  \/ UpdateProductDeleteGallery(r)
  \/ UpdateProductUploadGallery(r)
  \/ UpdateProductUpdate(r)

\* ------------------------------------------------------------------ deleteProduct (images)
\* After the thumbnail: the gallery images, then the row.
ThenDeleteGallery(rec) ==
  IF GalleryOf(rec.existingProduct) # <<>>
    THEN [rec EXCEPT !.pc = "deleteGallery", !.toDelete = GalleryOf(rec.existingProduct)]
    ELSE [rec EXCEPT !.pc = "delete"]

\* deleteProduct of a product whose row holds a thumbnail.
DeleteProductImagesFind(r) ==
  /\ CanStart(r)
  /\ \E pid \in ProductIds :
       LET rec == [IdleReq EXCEPT !.op = "deleteProductImages", !.productId = pid,
                                  !.existingProduct = products[pid]]
       IN /\ HasRow(products, pid) => HasThumbnail(products[pid])
          /\ req' = [req EXCEPT ![r] =
               IF ~HasRow(products, pid)
                 THEN Finish([rec EXCEPT !.target = "missing"],
                             Resp(404, "Product not found"))
                 ELSE [rec EXCEPT !.pc = "deleteThumbnail"]]
  /\ UNCHANGED <<users, products, orders, store, sessions, lastWrite, tags, assets>>

DeleteProductImagesThumbnail(r) ==
  /\ At(r, "deleteProductImages", "deleteThumbnail")
  /\ \E ok \in BOOLEAN :
       assets' = Deleted(assets, req[r].existingProduct.thumbnail, ok)
  /\ req' = [req EXCEPT ![r] = ThenDeleteGallery(req[r])]
  /\ UNCHANGED <<users, products, orders, store, sessions, lastWrite, tags>>

DeleteProductImagesGallery(r) ==
  /\ At(r, "deleteProductImages", "deleteGallery")
  /\ \E ok \in BOOLEAN :
       assets' = Deleted(assets, Head(req[r].toDelete), ok)
  /\ req' = [req EXCEPT ![r] =
       [req[r] EXCEPT !.toDelete = Tail(@),
          !.pc = IF Tail(req[r].toDelete) = <<>> THEN "delete" ELSE @]]
  /\ UNCHANGED <<users, products, orders, store, sessions, lastWrite, tags>>

DeleteProductImagesDelete(r) ==
  /\ At(r, "deleteProductImages", "delete")
  /\ \E dbOk \in BOOLEAN :
       LET pid == req[r].productId
       IN IF dbOk /\ HasRow(products, pid)
            THEN /\ products' = [products EXCEPT ![pid] = NoRow]
                 /\ orders' = CascadeOrders(orders, pid)
                 /\ lastWrite' = [o \in OrderIds |->
                      IF orders'[o] # orders[o] THEN Wrote("delete") ELSE lastWrite[o]]
                 /\ req' = [req EXCEPT ![r] =
                      Finish([req[r] EXCEPT !.target = "found"], Resp(200, "none"))]
            ELSE /\ UNCHANGED <<products, orders, lastWrite>>
                 /\ req' = [req EXCEPT ![r] =
                      Finish(req[r], Resp(500, "Failed to delete product"))]
  /\ UNCHANGED <<users, store, sessions, tags, assets>>

DeleteProductImages(r) ==
  \/ DeleteProductImagesFind(r)
  \/ DeleteProductImagesThumbnail(r)
  \/ DeleteProductImagesGallery(r)
  \/ DeleteProductImagesDelete(r)

\* ------------------------------------------------------------------ specifications
\* Every handler, interleaved at every await.
Next ==
  \E r \in Reqs :
    \/ CreateOrder(r)
    \/ CreateOrderPlain(r)
    \/ CreateTransaction(r)
    \/ HandleNotification(r)
    \/ GetTransactionStatus(r)
    \/ GetAllOrders(r)
    \/ GetOrdersByUserId(r)
    \/ UpdateOrder(r)
    \/ DeleteOrder(r)
    \/ SyncUser(r)
    \/ SyncUserNamed(r)
    \/ DeleteProduct(r)
    \/ CreateTags(r)
    \/ UpdateTag(r)
    \/ DeleteTag(r)
    \/ CreateProductPlain(r)
    \/ CreateProduct(r)
    \/ UpdateProduct(r)
    \/ DeleteProductImages(r)

Spec == Init /\ [][Next]_vars

\* createOrder requests alone, racing each other.
NextCreate == \E r \in Reqs : CreateOrder(r)

SpecCreate == Init /\ [][NextCreate]_vars

\* The handlers that insert orders or change the rows an order refers to.
NextRefs ==
  \E r \in Reqs :
    \/ CreateOrder(r)
    \/ CreateTransaction(r)
    \/ SyncUser(r)
    \/ DeleteProduct(r)

SpecRefs == Init /\ [][NextRefs]_vars

\* The order handlers: creation, update, delete.
NextOrders ==
  \E r \in Reqs :
    \/ CreateOrder(r)
    \/ UpdateOrder(r)
    \/ DeleteOrder(r)

SpecOrders == Init /\ [][NextOrders]_vars

\* Both createOrder handlers beside a product deletion.
NextVariants ==
  \E r \in Reqs :
    \/ CreateOrder(r)
    \/ CreateOrderPlain(r)
    \/ DeleteProduct(r)

SpecVariants == Init /\ [][NextVariants]_vars

\* The handlers that write an order's status.
NextStatus ==
  \E r \in Reqs :
    \/ HandleNotification(r)
    \/ UpdateOrder(r)

SpecStatus == Init /\ [][NextStatus]_vars

\* The payment handlers of the midtrans router.
NextPay ==
  \E r \in Reqs :
    \/ CreateTransaction(r)
    \/ HandleNotification(r)
    \/ GetTransactionStatus(r)

SpecPay == Init /\ [][NextPay]_vars

\* Both syncUser handlers, racing each other.
NextUsers ==
  \E r \in Reqs :
    \/ SyncUser(r)
    \/ SyncUserNamed(r)

SpecUsers == Init /\ [][NextUsers]_vars

\* The database and the bucket after createOrder (request 0) has placed order
\* o1 with one image and a snap token.
InitNotify ==
  LET path == FilePath("o1", 1, Uuid(0, 1))
  IN /\ users = [u \in UserIds |->
                   IF u = "u1" THEN [name |-> "n1", role |-> "customer"] ELSE NoRow]
     /\ products = [p \in ProductIds |-> [price |-> P1Price]]
     /\ orders = [o \in OrderIds |->
                    IF o = "o1"
                      THEN OrderRow(0, "u1", "p1", "w1", "t1", <<PublicUrl(path)>>)
                      ELSE NoRow]
     /\ store = {path}
     /\ sessions = {}
     /\ tags = {}
     /\ assets = {}
     /\ req = [r \in Reqs |-> IdleReq]
     /\ lastWrite = [o \in OrderIds |-> IF o = "o1" THEN Wrote("create") ELSE NoWrite]

\* Notifications beside deletions of the orders they are about.
NextNotify ==
  \E r \in Reqs :
    \/ HandleNotification(r)
    \/ DeleteOrder(r)

SpecNotify == InitNotify /\ [][NextNotify]_vars

\* A new deployment: the tables and the buckets are empty.
InitCatalog ==
  /\ users = [u \in UserIds |-> NoRow]
  /\ products = [p \in ProductIds |-> NoRow]
  /\ orders = [o \in OrderIds |-> NoRow]
  /\ store = {}
  /\ sessions = {}
  /\ tags = {}
  /\ assets = {}
  /\ req = [r \in Reqs |-> IdleReq]
  /\ lastWrite = [o \in OrderIds |-> NoWrite]

\* The handlers that write the Tag table.
NextTags ==
  \E r \in Reqs :
    \/ CreateTags(r)
    \/ UpdateTag(r)
    \/ DeleteTag(r)
    \/ CreateProductPlain(r)

SpecTags == InitCatalog /\ [][NextTags]_vars

\* The product handlers that upload images.
NextCatalog ==
  \E r \in Reqs :
    \/ CreateProduct(r)
    \/ UpdateProduct(r)
    \/ DeleteProductImages(r)

SpecCatalog == InitCatalog /\ [][NextCatalog]_vars

\* A database that already holds orders: every table of users u1, u2 and of
\* orders o1, o2 that earlier requests can have left, each order referring to
\* an existing user and to product p1.
InitLists ==
  /\ users \in [UserIds -> {NoRow, [name |-> "null", role |-> "customer"]}]
  /\ products = [p \in ProductIds |-> [price |-> P1Price]]
  /\ orders \in [OrderIds ->
       {NoRow} \cup
       {[userId |-> u, productId |-> "p1", status |-> st, weddingInfo |-> "{}",
         snapToken |-> "null", imageUrls |-> <<>>, by |-> 0, refsExisted |-> TRUE] :
          u \in UserIds, st \in Statuses}]
  /\ \A o \in OrderIds : HasRow(orders, o) => HasRow(users, orders[o].userId)
  /\ store = {}
  /\ sessions = {}
  /\ tags = {}
  /\ assets = {}
  /\ req = [r \in Reqs |-> IdleReq]
  /\ lastWrite = [o \in OrderIds |-> NoWrite]

\* The listing handlers, beside deletions of the orders they list.
NextLists ==
  \E r \in Reqs :
    \/ GetAllOrders(r)
    \/ GetOrdersByUserId(r)
    \/ DeleteOrder(r)

SpecLists == InitLists /\ [][NextLists]_vars

\* ------------------------------------------------------------------ properties
Done(r, op) == req[r].op = op /\ req[r].pc = "done"

\* The objects request r uploaded that are still in the bucket.
AssetsOf(r) == {p \in store : p.uuid[1] = r}

\* The Order row request r inserted is in the table.
RowBy(r) == \E o \in OrderIds : HasRow(orders, o) /\ orders[o].by = r

\* The images request r uploaded: every attempted index but the failed one.
UploadedBy(r) == req[r].attempted \ {req[r].failedAt}

UploadFailed(r) == Done(r, "createOrder") /\ req[r].failedAt >= 1

InsertFailed(r) == Done(r, "createOrder") /\ req[r].insert = "failed"

\* C1 as stated: when the upload of image k fails no later image is uploaded,
\* the attempt inserts no Order row, the response is the 500 naming k, and
\* none of the assets the attempt uploaded is left in the object store.
C1_UploadFailureLeavesNothing ==
  \A r \in Reqs :
    UploadFailed(r) =>
      /\ req[r].attempted = 1..req[r].failedAt
      /\ ~RowBy(r)
      /\ req[r].resp = UploadFailedResp(req[r].failedAt)
      /\ AssetsOf(r) = {}

\* C1 amended: when the upload of image k fails no later image is uploaded,
\* the attempt inserts no Order row and the response is the 500 naming k; one
\* remove call is made for the assets 1..k-1 (when k > 1) and, unless that
\* call itself fails, none of them is left in the object store.
C1_UploadFailureCompensated ==
  \A r \in Reqs :
    UploadFailed(r) =>
      /\ req[r].attempted = 1..req[r].failedAt
      /\ ~RowBy(r)
      /\ req[r].resp = UploadFailedResp(req[r].failedAt)
      /\ req[r].failedAt > 1 <=> req[r].cleanup # "none"
      /\ req[r].cleanup # "failed" => AssetsOf(r) = {}

C1_Witness ==
  \E r \in Reqs :
    UploadFailed(r) /\ req[r].failedAt = 2 /\ req[r].cleanup = "ok"
      /\ AssetsOf(r) = {}

\* C2 as stated: when every upload succeeds and the insert fails, the caller
\* gets an error, the attempt leaves no Order row and none of its assets is
\* left in the object store.
C2_InsertFailureLeavesNothing ==
  \A r \in Reqs :
    InsertFailed(r) =>
      /\ req[r].resp.code >= 400
      /\ ~RowBy(r)
      /\ AssetsOf(r) = {}

\* C2 amended: when every upload succeeds and the insert fails, the caller
\* gets an error, the attempt leaves no Order row, one remove call is made for
\* all its assets and, unless that call itself fails, none of them is left in
\* the object store.
C2_InsertFailureCompensated ==
  \A r \in Reqs :
    InsertFailed(r) =>
      /\ req[r].resp.code >= 400
      /\ ~RowBy(r)
      /\ req[r].failedAt = 0
      /\ req[r].cleanup # "none"
      /\ req[r].cleanup # "failed" => AssetsOf(r) = {}

C2_Witness ==
  \E r \in Reqs :
    InsertFailed(r) /\ req[r].attempted = {1, 2} /\ req[r].cleanup = "ok"
      /\ AssetsOf(r) = {}

\* C3: a createOrder request answers 201 exactly when its insert went
\* through: at the step that answers 201 the row it inserted is in the table,
\* and no state holds both a non-201 answer and a row inserted by that request.
C3_NoPartialSuccess ==
  [][\A r \in Reqs :
        (req'[r].op = "createOrder" /\ req'[r].pc = "done") =>
          /\ req'[r].resp.code = 201 <=> req'[r].insert = "ok"
          /\ (req[r].pc # "done" /\ req'[r].resp.code = 201)
               => \E o \in OrderIds :
                    ~HasRow(orders, o) /\ HasRow(orders', o) /\ orders'[o].by = r
          /\ req'[r].resp.code # 201
               => ~\E o \in OrderIds : HasRow(orders', o) /\ orders'[o].by = r]_vars

C3_Witness ==
  \E r \in Reqs :
    Done(r, "createOrder") /\ req[r].resp.code = 201 /\ RowBy(r)
      /\ req[r].attempted = {1, 2}

Quiescent == \A r \in Reqs : req[r].pc \in {"idle", "done"}

\* C5 as stated: once the requests have completed, an asset uploaded by a
\* createOrder attempt is in the object store exactly when the Order row that
\* attempt inserted is in the table.
C5_AssetsIffRow ==
  Quiescent =>
    \A r \in Reqs :
      Done(r, "createOrder") =>
        \A i \in UploadedBy(r) : (\E p \in AssetsOf(r) : p.index = i) <=> RowBy(r)

\* C5 amended: every image URL of an Order row in the table is the URL of an
\* asset in the object store; an attempt whose row is not in the table has
\* assets left in the store only if deleteOrder removed the row it had
\* inserted or its compensating remove failed.
C5_RowAssetsKept ==
  /\ \A o \in OrderIds :
       HasRow(orders, o) =>
         \A k \in 1..Len(orders[o].imageUrls) :
           \E p \in store : orders[o].imageUrls[k] = PublicUrl(p)
  /\ \A r \in Reqs :
       (Done(r, "createOrder") /\ ~RowBy(r) /\ AssetsOf(r) # {}) =>
         (req[r].insert = "ok" \/ req[r].cleanup = "failed")

\* A row with two images beside a finished deleteOrder.
C5_Witness ==
  /\ Quiescent
  /\ \E o \in OrderIds : HasRow(orders, o) /\ Len(orders[o].imageUrls) = 2
  /\ \E r \in Reqs : Done(r, "deleteOrder") /\ req[r].target = "found"

\* C6: the status of an Order row that is 'diterima' or 'dibatalkan' is not
\* changed by any step.
C6_StatusOnlyForward ==
  [][\A o \in OrderIds :
        (HasRow(orders, o) /\ HasRow(orders', o) /\ orders'[o].by = orders[o].by
           /\ orders[o].status \in {"diterima", "dibatalkan"})
          => orders'[o].status = orders[o].status]_vars

\* The table of section 4.5.
TableStatus(transactionStatus, fraudStatus) ==
  CASE transactionStatus = "capture" /\ fraudStatus = "accept" -> "diterima"
    [] transactionStatus = "capture" /\ fraudStatus # "accept" -> "pending"
    [] transactionStatus = "settlement" -> "diterima"
    [] transactionStatus \in {"cancel", "deny", "expire"} -> "dibatalkan"
    [] transactionStatus = "pending" -> "pending"
    [] OTHER -> "pending"

\* C7: an Order row last written by a verified notification has the status
\* the table gives for that notification's transaction and fraud status.
C7_TransitionTable ==
  \A o \in OrderIds :
    lastWrite[o].op = "notify" =>
      /\ HasRow(orders, o)
      /\ orders[o].status =
           TableStatus(lastWrite[o].transactionStatus, lastWrite[o].fraudStatus)

C7_Witness ==
  \E o \in OrderIds :
    /\ lastWrite[o].op = "notify"
    /\ lastWrite[o].transactionStatus = "capture"
    /\ lastWrite[o].fraudStatus = "challenge"
    /\ \E o2 \in OrderIds : HasRow(orders, o2) /\ orders[o2].status = "pending"

\* C8: after the same verified notification has been applied to an Order twice
\* in a row, the row equals the row as it was after the first application.
C8_NotificationIdempotent ==
  \A o \in OrderIds :
    (lastWrite[o].op = "notify" /\ lastWrite[o].repeated) =>
      orders[o] = lastWrite[o].row

C8_Witness ==
  \E o \in OrderIds :
    /\ lastWrite[o].op = "notify" /\ lastWrite[o].repeated
    /\ lastWrite[o].transactionStatus = "settlement"
    /\ HasRow(orders, o) /\ orders[o].status = "diterima"

\* C9: a verified notification whose order id matches no Order row is
\* answered 404 and inserts no row.
C9_UnknownOrderNotFound ==
  \A r \in Reqs :
    (Done(r, "handleNotification") /\ req[r].target = "missing") =>
      req[r].resp.code = 404 /\ ~RowBy(r)

\* C10: a notification the gateway's verification rejects is answered with an
\* error without reaching the update, and a notification is at or past the
\* update only when its verification succeeded.
C10_RejectedChangesNothing ==
  \A r \in Reqs :
    req[r].op = "handleNotification" =>
      /\ req[r].verified = "rejected" =>
           (req[r].pc = "done" /\ req[r].resp.code >= 400 /\ req[r].target = "none")
      /\ (req[r].pc = "update" \/ req[r].target # "none") => req[r].verified = "ok"

C10_Witness ==
  \E r \in Reqs :
    Done(r, "handleNotification") /\ req[r].verified = "rejected"
      /\ req[r].resp = NotificationFailedResp

CreateOrderDone(r) == Done(r, "createOrder") \/ Done(r, "createOrderPlain")

\* C11: a createOrder request missing orderId, userId or productId is answered
\* 400, one with no image 400, one whose user has no row 404 'User not found',
\* one whose product has no row 404 'Product not found', each without an
\* upload having been attempted and without an Order row inserted.
C11_ValidationBeforeEffects ==
  \A r \in Reqs :
    CreateOrderDone(r) =>
      /\ req[r].absent = "fields" => req[r].resp.code = 400
      /\ req[r].noImage => req[r].resp.code = 400
      /\ (req[r].absent = "user" /\ ~req[r].noImage)
           => (req[r].resp.code = 404 /\ req[r].resp.error = "User not found")
      /\ (req[r].absent = "product" /\ ~req[r].noImage)
           => (req[r].resp.code = 404 /\ req[r].resp.error = "Product not found")
      /\ (req[r].absent # "none" \/ req[r].noImage)
           => (req[r].attempted = {} /\ req[r].insert = "none" /\ ~RowBy(r))

\* The same, of the createOrder of part_003 alone.
CreateOrderValidates ==
  \A r \in Reqs :
    Done(r, "createOrder") =>
      /\ req[r].absent = "fields" => req[r].resp.code = 400
      /\ req[r].noImage => req[r].resp.code = 400
      /\ req[r].absent = "user"
           => (req[r].resp.code = 404 /\ req[r].resp.error = "User not found")
      /\ req[r].absent = "product"
           => (req[r].resp.code = 404 /\ req[r].resp.error = "Product not found")
      /\ (req[r].absent # "none" \/ req[r].noImage)
           => (req[r].attempted = {} /\ req[r].insert = "none" /\ ~RowBy(r))

\* C12: at the step at which a createOrder request with n >= 1 images
\* answers 201, the row it inserts has status 'pending' and an imageUrls list
\* of length n whose i-th element is the public URL of the asset uploaded,
\* and still stored, for the i-th image.
C12_ImageUrlsInOrder ==
  [][\A r \in Reqs :
        (At(r, "createOrder", "insert") /\ req'[r].pc = "done"
           /\ req'[r].resp.code = 201) =>
          LET o == req[r].orderId
              n == req[r].nImages
          IN /\ n >= 1
             /\ HasRow(orders', o)
             /\ orders'[o].status = "pending"
             /\ Len(orders'[o].imageUrls) = n
             /\ \A i \in 1..n :
                  \E p \in store' :
                    /\ p.order = o /\ p.index = i /\ p.uuid = Uuid(r, i)
                    /\ orders'[o].imageUrls[i] = PublicUrl(p)]_vars

C12_Witness ==
  \E r \in Reqs, o \in OrderIds :
    /\ Done(r, "createOrder") /\ req[r].resp.code = 201
    /\ HasRow(orders, o) /\ orders[o].by = r
    /\ Len(orders[o].imageUrls) = 2
    /\ orders[o].imageUrls[1] # orders[o].imageUrls[2]

\* C13: a createOrder request whose compensating remove failed is answered
\* with the original error: the 500 naming the image whose upload failed, with
\* the upload error as details, or the 500 'Failed to create order' with the
\* persistence error as details.
C13_CleanupFailureNotEscalated ==
  \A r \in Reqs :
    (Done(r, "createOrder") /\ req[r].cleanup = "failed") =>
      /\ req[r].resp.code = 500
      /\ req[r].resp.details # "removeError"
      /\ req[r].failedAt >= 1 =>
           /\ req[r].resp.error = "Failed to upload image"
           /\ req[r].resp.index = req[r].failedAt
           /\ req[r].resp.details = "uploadError"
      /\ req[r].insert = "failed" =>
           /\ req[r].resp.error = "Failed to create order"
           /\ req[r].resp.details = "dbError"

\* A failed cleanup after an upload failure, its assets left in the bucket.
C13_Witness ==
  \E r \in Reqs :
    /\ Done(r, "createOrder") /\ req[r].cleanup = "failed"
    /\ req[r].failedAt = 2 /\ AssetsOf(r) # {}

\* The row of order o and every asset its imageUrls list are in place.
Intact(o, table, bucket) ==
  /\ HasRow(table, o)
  /\ \A k \in 1..Len(table[o].imageUrls) :
       \E p \in bucket : table[o].imageUrls[k] = PublicUrl(p)

\* C14: among createOrder requests no step replaces or removes an Order row
\* that exists or an asset its imageUrls list, and a request that finishes
\* while a row with its order id exists (the loser of the race for that id)
\* is answered with an error and leaves no row of its own.
C14_DuplicateIdLoserOnly ==
  [][/\ \A o \in OrderIds :
          Intact(o, orders, store) => (orders'[o] = orders[o] /\ Intact(o, orders', store'))
     /\ \A r \in Reqs :
          (req[r].op = "createOrder" /\ req[r].pc # "done" /\ req'[r].pc = "done"
             /\ HasRow(orders, req[r].orderId)) =>
            /\ req'[r].resp.code >= 400
            /\ orders'[req[r].orderId].by # r]_vars

\* A request has inserted an order with two images; the other asked for the
\* same id, was refused by the unique key and has removed its own uploads.
C14_Witness ==
  \E r1, r2 \in Reqs, o \in OrderIds :
    /\ Done(r1, "createOrder") /\ HasRow(orders, o) /\ orders[o].by = r1
    /\ Len(orders[o].imageUrls) = 2 /\ Intact(o, orders, store)
    /\ Done(r2, "createOrder") /\ req[r2].duplicate /\ req[r2].cleanup = "ok"
    /\ req[r2].attempted = {1, 2} /\ req[r2].resp.code = 500

\* C15: whatever other deliveries and updates have run in between, the step
\* at which a verified notification updates an existing order writes the
\* status the table gives for that notification, whatever the status was, and
\* changes nothing else of the row and no other row: the last writer's status
\* stands.
C15_LastWriteWins ==
  [][\A r \in Reqs :
        (At(r, "handleNotification", "update") /\ req'[r].pc = "done"
           /\ HasRow(orders, req[r].orderId)) =>
          /\ orders' = [orders EXCEPT ![req[r].orderId].status =
               TableStatus(req[r].transactionStatus, req[r].fraudStatus)]
          /\ req'[r].resp.code = 200]_vars

\* Two deliveries for o1 raced: one has made the order 'diterima', the other,
\* verified before that write, is about to make it 'dibatalkan'.
C15_Witness ==
  \E r1, r2 \in Reqs :
    /\ r1 # r2
    /\ Done(r1, "handleNotification") /\ req[r1].target = "found"
    /\ At(r2, "handleNotification", "update") /\ req[r2].orderId = "o1"
    /\ HasRow(orders, "o1") /\ orders["o1"].status = "diterima"
    /\ TableStatus(req[r2].transactionStatus, req[r2].fraudStatus) = "dibatalkan"

\* C16: an updateOrder or deleteOrder request that finds no Order row with
\* its id, at its existence check or at its update / delete step, is answered
\* 404.
C16_AbsentOrderNotFound ==
  \A r \in Reqs :
    ((Done(r, "updateOrder") \/ Done(r, "deleteOrder")) /\ req[r].target = "missing")
      => req[r].resp.code = 404

\* C17: the step at which updateOrder updates an existing order sets status,
\* weddingInfo and snapToken to the body's value where the body has one and
\* keeps the row's value where it has none; userId, productId and imageUrls
\* keep their values and every other row is unchanged.
C17_UpdatesOnlySuppliedFields ==
  [][\A r \in Reqs :
        (At(r, "updateOrder", "update") /\ req'[r].pc = "done"
           /\ HasRow(orders, req[r].orderId)) =>
          LET o == req[r].orderId
              body == lastWrite'[o].body
              old == orders[o]
              new == orders'[o]
          IN /\ lastWrite'[o].op = "update"
             /\ HasRow(orders', o)
             /\ new.status = IF body.status = Missing THEN old.status ELSE body.status
             /\ new.weddingInfo =
                  IF body.weddingInfo = Missing THEN old.weddingInfo ELSE body.weddingInfo
             /\ new.snapToken =
                  IF body.snapToken = Missing THEN old.snapToken ELSE body.snapToken
             /\ new.userId = old.userId /\ new.productId = old.productId
             /\ new.imageUrls = old.imageUrls /\ new.by = old.by
             /\ \A o2 \in OrderIds \ {o} : orders'[o2] = orders[o2]]_vars

\* An update that gave only a status, to an order whose weddingInfo and
\* snapToken an earlier update had set.
C17_Witness ==
  \E o \in OrderIds :
    /\ lastWrite[o].op = "update"
    /\ lastWrite[o].body.status = "diterima"
    /\ lastWrite[o].body.weddingInfo = Missing /\ lastWrite[o].body.snapToken = Missing
    /\ HasRow(orders, o) /\ orders[o].status = "diterima"
    /\ orders[o].weddingInfo = "w1" /\ orders[o].snapToken = "t1"

\* C18: createTransaction asks the gateway for a session whose reference is
\* the order id and whose gross amount is the product's price; it inserts the
\* Order, with status pending, only after the gateway has answered: a request
\* whose gateway call failed is answered 500 and has inserted no row, and a
\* request whose insert failed is answered 500, has inserted no row and leaves
\* the gateway session as it is.
C18_OrderAfterGateway ==
  /\ [](\A r \in Reqs :
          /\ (req[r].op = "createTransaction" /\ RowBy(r)) => req[r].gateway = "ok"
          /\ (Done(r, "createTransaction") /\ req[r].gateway = "failed") =>
               ~RowBy(r) /\ req[r].resp = TransactionFailedResp
          /\ (Done(r, "createTransaction") /\ req[r].insert = "failed") =>
               ~RowBy(r) /\ req[r].resp = TransactionFailedResp)
  /\ [][\A r \in Reqs :
          LET o == req[r].orderId
              session == TransactionDetails(o, products[req[r].productId].price)
          IN /\ (At(r, "createTransaction", "snap") /\ req'[r] # req[r]) =>
                  /\ orders' = orders
                  /\ \/ req'[r].gateway = "ok" /\ sessions' = sessions \cup {session}
                     \/ req'[r].gateway = "failed" /\ sessions' = sessions
             /\ (At(r, "createTransaction", "insert") /\ req'[r].pc = "done") =>
                  /\ session \in sessions /\ sessions' = sessions
                  /\ \/ /\ req'[r].resp.code = 201
                        /\ ~HasRow(orders, o) /\ HasRow(orders', o)
                        /\ orders'[o].status = "pending" /\ orders'[o].by = r
                        /\ orders'[o].userId = req[r].userId
                        /\ orders'[o].productId = req[r].productId
                     \/ /\ req'[r].resp = TransactionFailedResp
                        /\ orders' = orders]_vars

\* The gateway opened the session of o2, the insert failed: the caller got
\* one failure, o2 has no row and its session is still open.
C18_Witness ==
  \E r \in Reqs :
    /\ Done(r, "createTransaction")
    /\ req[r].gateway = "ok" /\ req[r].insert = "failed"
    /\ req[r].resp = TransactionFailedResp
    /\ ~HasRow(orders, "o2")
    /\ TransactionDetails("o2", P1Price) \in sessions

\* C19: getTransactionStatus for an order id that has no local Order row
\* answers 404, whatever the gateway's status query returned or raised.
C19_NoLocalRowNotFound ==
  \A r \in Reqs :
    (Done(r, "getTransactionStatus") /\ req[r].target = "missing") =>
      req[r].resp.code = 404

SyncUserOp(r) == req[r].op \in {"syncUser", "syncUserNamed"}

\* C20: syncUser finds or creates by sub and the existing row wins: the
\* upsert of a request whose sub has a row leaves the table as it is, the
\* upsert of a request whose sub has none creates a row with role customer
\* and changes no other row, so any number of calls with one sub store the
\* row of the first; a request without sub is answered 400 and no step of it
\* changes the table.
C20_ExistingRowWins ==
  /\ [](\A r \in Reqs :
          (SyncUserOp(r) /\ req[r].pc = "done") =>
            \/ req[r].resp.code = 400 /\ req[r].target = "none"
            \/ req[r].resp.code = 200 /\ req[r].target \in {"found", "missing"})
  /\ [][\A r \in Reqs :
          /\ (SyncUserOp(r) /\ req[r].pc = "upsert" /\ req'[r].pc = "done") =>
               LET sub == req[r].userId
               IN IF HasRow(users, sub)
                    THEN users' = users /\ req'[r].target = "found"
                    ELSE /\ HasRow(users', sub)
                         /\ users'[sub].role = "customer"
                         /\ \A u \in UserIds \ {sub} : users'[u] = users[u]
                         /\ req'[r].target = "missing"
          /\ (SyncUserOp(r)' /\ req'[r].pc = "done" /\ req'[r].resp.code = 400
                /\ req[r].pc # "done") =>
               users' = users
          /\ \A u \in UserIds : HasRow(users, u) => users'[u] = users[u]]_vars

\* Two finished calls for u2, the first with a name and the second without:
\* the row is the one the first call created.
C20_Witness ==
  \E r1, r2 \in Reqs :
    /\ r1 # r2
    /\ Done(r1, "syncUserNamed") /\ req[r1].userId = "u2"
    /\ req[r1].name = "n2" /\ req[r1].target = "missing"
    /\ Done(r2, "syncUserNamed") /\ req[r2].userId = "u2"
    /\ req[r2].name = Missing /\ req[r2].target = "found"
    /\ users["u2"] = [name |-> "n2", role |-> "customer"]

\* The list is exactly the rows of the table that belong to userId (when one
\* is given) and have the status (when one is given), each once, and no element
\* comes before one whose status is earlier in dibatalkan, diterima, pending.
ListsExactly(l, table, userId, status) ==
  /\ {l[i].id : i \in 1..Len(l)} =
       {o \in OrderIds : /\ HasRow(table, o)
                         /\ userId # Missing => table[o].userId = userId
                         /\ status # Missing => table[o].status = status}
  /\ \A i, j \in 1..Len(l) : i # j => l[i].id # l[j].id
  /\ \A i \in 1..Len(l) : /\ l[i].status = table[l[i].id].status
                          /\ l[i].userId = table[l[i].id].userId
  /\ \A i, j \in 1..Len(l) :
       i < j => /\ l[i].status = "pending" => l[j].status = "pending"
                /\ l[i].status = "diterima" => l[j].status # "dibatalkan"

C23_OnlyStatusOfNotifiedOrder ==
  [][\A r \in Reqs :
       /\ (req'[r] # req[r] /\ req'[r].op = "handleNotification") =>
            /\ store' = store /\ users' = users /\ products' = products
            /\ sessions' = sessions
       /\ (req[r].op = "none" /\ req'[r].op = "handleNotification") =>
            orders' = orders
       /\ (At(r, "handleNotification", "update") /\ req'[r] # req[r]) =>
            LET oid == req[r].orderId
            IN /\ \A o \in OrderIds \ {oid} : orders'[o] = orders[o]
               /\ HasRow(orders', oid) = HasRow(orders, oid)
               /\ HasRow(orders, oid) =>
                    /\ orders'[oid].userId = orders[oid].userId
                    /\ orders'[oid].productId = orders[oid].productId
                    /\ orders'[oid].weddingInfo = orders[oid].weddingInfo
                    /\ orders'[oid].snapToken = orders[oid].snapToken
                    /\ orders'[oid].imageUrls = orders[oid].imageUrls]_vars

\* A notification has made 'diterima' an order that createOrder had inserted
\* with images and a snap token; the images are still in the bucket.
C23_Witness ==
  \E o \in OrderIds :
    /\ lastWrite[o].op = "notify"
    /\ HasRow(orders, o) /\ orders[o].status = "diterima"
    /\ orders[o].imageUrls # <<>> /\ orders[o].snapToken = "t1"
    /\ \A i \in 1..Len(orders[o].imageUrls) : orders[o].imageUrls[i].publicUrl \in store

\* C22: every persisted Tag has a name that is not empty, has no space at
\* either end and no capital letter, and no two Tags have the same name.
C22_TagNamesNormalized ==
  \A t \in tags :
    /\ t.name # <<>>
    /\ t.name[1] # " " /\ t.name[Len(t.name)] # " "
    /\ \A i \in 1..Len(t.name) : t.name[i] \notin {"A", "B"}
    /\ \A u \in tags : u.name = t.name => u.id = t.id

\* C24: the thumbnail URL and every gallery URL of a persisted Product refer
\* to an object that is in the products bucket.
C24_ProductUrlsResolve ==
  \A p \in ProductIds :
    HasThumbnail(products[p]) =>
      /\ UrlPath(products[p].thumbnail) \in assets
      /\ \A i \in 1..Len(products[p].galleryUrls) :
           UrlPath(products[p].galleryUrls[i]) \in assets

====
